---------------------------- MODULE Spec2Model ----------------------------
(***************************************************************************)
(* Stroke-risk scoring service (src/model_service.py): the feature         *)
(* encoder preprocess_features, the /predict handler with its output       *)
(* interpretation, the /health and /model/info handlers and load_model.    *)
(*                                                                         *)
(* Number representations                                                  *)
(*   - a Python number (int or double) of a feature record is an integer   *)
(*     count of thousandths ("milli"): 228.69 is 228690;                   *)
(*   - a float32 element of the encoded row is an integer count of 2^-20   *)
(*     ("Q20"): F32 rounds a milli value to the nearest float32;           *)
(*   - a model output element and a reported probability are integer       *)
(*     counts of 1/10000 ("pu"): 0.7 is 7000.  The arithmetic of the       *)
(*     multi-class blend is exact on the grid of outputs used here.        *)
(***************************************************************************)
EXTENDS Integers, Sequences, FiniteSets, TLC

VARIABLES
    model,        \* the global model handle (line 17); NoModel stands for None
    phase,        \* "init" | "serving" | "exited": process lifecycle (lines 270-285)
    pc,           \* pc[t]: position of worker thread t inside its handler
    body,         \* body[t]: the request body thread t is handling
    features,     \* features[t]: local `features` of predict (line 186)
    input_data,   \* input_data[t]: local `input_data` of predict (line 189)
    prediction,   \* prediction[t]: local `prediction` of predict (line 195)
    response      \* response[t]: the response thread t returned

vars == <<model, phase, pc, body, features, input_data, prediction, response>>

-----------------------------------------------------------------------------
(* Bounds *)

NThreads == 2      \* concurrent worker threads of the Flask server
MaxPresent == 2    \* keys present in a generated feature record
MaxCard == 6       \* largest output cardinality generated

Threads == 1..NThreads

-----------------------------------------------------------------------------
(* JSON values of a feature record *)

Absent == [t |-> "absent", n |-> 0, b |-> FALSE, s |-> ""]
Num(m) == [t |-> "num", n |-> m, b |-> FALSE, s |-> ""]
Bool(x) == [t |-> "bool", n |-> 0, b |-> x, s |-> ""]
Str(x) == [t |-> "str", n |-> 0, b |-> FALSE, s |-> x]

\* the ten keys preprocess_features reads, in vector order
FeatureKeys ==
    <<"age", "hypertension", "heart_disease", "ever_married", "work_type",
      "Residence_type", "avg_glucose_level", "bmi", "gender", "smoking_status">>

KeySet == {FeatureKeys[i] : i \in 1..Len(FeatureKeys)}

EmptyItems == [k \in KeySet |-> Absent]

\* a JSON object used as `features`; isdict = FALSE is a JSON value that is
\* no object (a number, a list, null), which has no .get
Dict(items) == [isdict |-> TRUE, items |-> items]
NotADict == [isdict |-> FALSE, items |-> EmptyItems]

\* dict.get(key, default)
Get(items, key, default) == IF items[key] = Absent THEN default ELSE items[key]

\* list(features.keys())
Keys(items) == {k \in KeySet : items[k] # Absent}

-----------------------------------------------------------------------------
(* Python built-ins used by the encoder *)

\* str.lower() on the strings of the model's universe
LowerTable ==
    [s \in {"Yes", "YES", "Married", "No", "Private", "PRIVATE", "Self-employed",
            "Govt_job", "Never_worked", "Children", "Urban", "URBAN", "Rural",
            "Male", "MALE", "Female", "Other", "Smokes", "Never smoked",
            "Formerly Smoked", "Unknown", "Current", "Sometimes"} |->
        CASE s = "Yes" -> "yes" [] s = "YES" -> "yes" [] s = "Married" -> "married"
          [] s = "No" -> "no" [] s = "Private" -> "private" [] s = "PRIVATE" -> "private"
          [] s = "Self-employed" -> "self-employed" [] s = "Govt_job" -> "govt_job"
          [] s = "Never_worked" -> "never_worked" [] s = "Children" -> "children"
          [] s = "Urban" -> "urban" [] s = "URBAN" -> "urban" [] s = "Rural" -> "rural"
          [] s = "Male" -> "male" [] s = "MALE" -> "male" [] s = "Female" -> "female"
          [] s = "Other" -> "other" [] s = "Smokes" -> "smokes"
          [] s = "Never smoked" -> "never smoked"
          [] s = "Formerly Smoked" -> "formerly smoked"
          [] s = "Unknown" -> "unknown" [] s = "Current" -> "current"
          [] s = "Sometimes" -> "sometimes"]

Lower(s) == IF s \in DOMAIN LowerTable THEN LowerTable[s] ELSE s

\* float(str): the strings of the universe that parse, with their value
NumericStr == [s \in {"67", "22.5", "0", "1"} |->
    CASE s = "67" -> 67000 [] s = "22.5" -> 22500 [] s = "0" -> 0 [] s = "1" -> 1000]

\* float(x) raises ValueError on a string that is no number
FloatRaises(x) == x.t = "str" /\ x.s \notin DOMAIN NumericStr

\* float(x) for a number, a bool or a numeric string, in milli
PyFloat(x) ==
    CASE x.t = "num" -> x.n
      [] x.t = "bool" -> IF x.b THEN 1000 ELSE 0
      [] x.t = "str" -> NumericStr[x.s]

\* truthiness of a JSON value (`if hypertension`)
Truthy(x) ==
    CASE x.t = "num" -> x.n # 0
      [] x.t = "bool" -> x.b
      [] x.t = "str" -> x.s # ""

\* isinstance(x, str)
IsStr(x) == x.t = "str"

-----------------------------------------------------------------------------
(* dtype=np.float32 (line 141): round a non-negative milli value to the   *)
(* nearest float32, as Q20.  Integers below 2^24 and dyadic fractions are  *)
(* exact; another value v >= 8 is rounded to a multiple of the float32     *)
(* spacing 2^(e-23), e = floor(log2 v), which is 2^(e-3) in Q20.           *)

Q20 == 2^20

RECURSIVE Ulp(_, _)
\* the float32 spacing at integer part q >= 8, in Q20, starting from u = 1 at [8, 16)
Ulp(q, u) == IF q < 16 THEN u ELSE Ulp(q \div 2, 2 * u)

F32(m) ==
    LET q == m \div 1000
        r == m % 1000
    IN  IF (r * Q20) % 1000 = 0
        THEN q * Q20 + (r * Q20) \div 1000
        ELSE LET u == Ulp(q, 1)
             IN  q * Q20 + u * ((2 * r * Q20 + 1000 * u) \div (2000 * u))


-----------------------------------------------------------------------------
(* preprocess_features (lines 54-141) *)

\* one slot short of the 22 the model expects
FeatureCountShort == 22 - 1

\* line 61: [0.0] * 22
FeatureCount == 22

\* ever_married defaulting to 0 like the other flags
DefaultOfNoMarriedDefault(key) ==
    CASE key = "age" -> Num(50000)
      [] key = "avg_glucose_level" -> Num(100000)
      [] key = "bmi" -> Num(25000)
      [] key = "Residence_type" -> Num(1000)
      [] OTHER -> Num(0)

\* the default of features.get(key, default), per key
DefaultOf(key) ==
    CASE key = "age" -> Num(50000)
      [] key = "avg_glucose_level" -> Num(100000)
      [] key = "bmi" -> Num(25000)
      [] key = "ever_married" -> Num(1000)
      [] key = "Residence_type" -> Num(1000)
      [] OTHER -> Num(0)

\* dict.get(key, default) of a lookup table whose keys are strings
MapGet(map, key, default) == IF key \in DOMAIN map THEN map[key] ELSE default

work_type_map ==
    [s \in {"private", "self-employed", "govt_job", "children", "never_worked"} |->
        CASE s = "private" -> 0 [] s = "self-employed" -> 1000 [] s = "govt_job" -> 2000
          [] s = "children" -> 3000 [] s = "never_worked" -> 4000]

gender_map ==
    [s \in {"male", "female", "other"} |->
        CASE s = "male" -> 1000 [] s = "female" -> 0 [] s = "other" -> 2000]

smoking_map ==
    [s \in {"never smoked", "never", "formerly smoked", "formerly", "smokes",
            "regularly smoked", "current", "unknown"} |->
        CASE s = "never smoked" -> 0 [] s = "never" -> 0
          [] s = "formerly smoked" -> 1000 [] s = "formerly" -> 1000
          [] s = "smokes" -> 2000 [] s = "regularly smoked" -> 2000
          [] s = "current" -> 2000 [] s = "unknown" -> 3000]

\* lines 67-68 and 71-72: float(1 if x else 0)
EncodeFlag(x) == IF Truthy(x) THEN 1000 ELSE 0

\* lines 75-78
EncodeEverMarried(x) ==
    IF IsStr(x) THEN (IF Lower(x.s) \in {"yes", "married"} THEN 1000 ELSE 0)
    ELSE PyFloat(x)

\* the table looked up without .lower()
EncodeWorkTypeCaseSensitive(x) ==
    IF IsStr(x) THEN MapGet(work_type_map, x.s, 0) ELSE PyFloat(x)

\* lines 81-91
EncodeWorkType(x) ==
    IF IsStr(x) THEN MapGet(work_type_map, Lower(x.s), 0) ELSE PyFloat(x)

\* lines 94-97
EncodeResidence(x) ==
    IF IsStr(x) THEN (IF Lower(x.s) = "urban" THEN 1000 ELSE 0) ELSE PyFloat(x)

\* lines 106-110
EncodeGender(x) ==
    IF IsStr(x) THEN MapGet(gender_map, Lower(x.s), 0) ELSE PyFloat(x)

\* lines 113-126
EncodeSmoking(x) ==
    IF IsStr(x) THEN MapGet(smoking_map, Lower(x.s), 3000) ELSE PyFloat(x)

\* the outcome of a call: exc = "none" and the value, or the exception raised
Returned(v) == [exc |-> "none", row |-> v]
Raised(e) == [exc |-> e, row |-> <<>>]

\* lines 60-138: the Python list feature_vector, in milli
FeatureVector(f) ==
    [i \in 1..FeatureCount |->
        CASE i = 1 -> PyFloat(Get(f, "age", DefaultOf("age")))
          [] i = 2 -> EncodeFlag(Get(f, "hypertension", DefaultOf("hypertension")))
          [] i = 3 -> EncodeFlag(Get(f, "heart_disease", DefaultOf("heart_disease")))
          [] i = 4 -> EncodeEverMarried(Get(f, "ever_married", DefaultOf("ever_married")))
          [] i = 5 -> EncodeWorkType(Get(f, "work_type", DefaultOf("work_type")))
          [] i = 6 -> EncodeResidence(Get(f, "Residence_type", DefaultOf("Residence_type")))
          [] i = 7 -> PyFloat(Get(f, "avg_glucose_level", DefaultOf("avg_glucose_level")))
          [] i = 8 -> PyFloat(Get(f, "bmi", DefaultOf("bmi")))
          [] i = 9 -> EncodeGender(Get(f, "gender", DefaultOf("gender")))
          [] i = 10 -> EncodeSmoking(Get(f, "smoking_status", DefaultOf("smoking_status")))
          [] OTHER -> 0]

\* the whole call: AttributeError when `features` has no .get (line 64),
\* ValueError when float() meets a non-numeric string (lines 64, 100, 103),
\* else the single row of np.array([feature_vector], dtype=np.float32)
preprocess_features(feat) ==
    IF ~feat.isdict THEN Raised("AttributeError")
    ELSE IF \E k \in {"age", "avg_glucose_level", "bmi"} :
                FloatRaises(Get(feat.items, k, DefaultOf(k)))
    THEN Raised("ValueError")
    ELSE LET fv == FeatureVector(feat.items)
         IN  Returned([i \in 1..FeatureCount |-> F32(fv[i])])

-----------------------------------------------------------------------------
(* The feature records generated as inputs *)

Values(key) ==
    CASE key = "age" -> {Num(67000), Num(30000), Str("67"), Str("abc")}
      [] key \in {"hypertension", "heart_disease"} ->
            {Num(0), Num(1000), Bool(TRUE), Bool(FALSE), Str(""), Str("No")}
      [] key = "ever_married" ->
            {Num(1000), Num(0), Bool(TRUE), Str("Yes"), Str("YES"), Str("married"),
             Str("No")}
      [] key = "work_type" ->
            {Num(0), Num(2000), Num(7000), Str("Private"), Str("self-employed"),
             Str("Govt_job"), Str("children"), Str("Never_worked"), Str("abc")}
      [] key = "Residence_type" ->
            {Num(1000), Num(0), Str("Urban"), Str("URBAN"), Str("Rural"), Str("abc")}
      [] key = "avg_glucose_level" ->
            {Num(228690), Num(85000), Str("22.5"), Str("abc")}
      [] key = "bmi" -> {Num(36600), Num(22500), Num(28300), Str("abc")}
      [] key = "gender" ->
            {Num(1000), Str("male"), Str("MALE"), Str("Female"), Str("Other"),
             Str("abc")}
      [] key = "smoking_status" ->
            {Num(0), Num(2000), Str("never smoked"), Str("never"),
             Str("Formerly Smoked"), Str("formerly"), Str("Smokes"),
             Str("regularly smoked"), Str("Current"), Str("Unknown"),
             Str("Sometimes")}

RECURSIVE RecordsUpTo(_)
\* every record with at most n keys present
RecordsUpTo(n) ==
    IF n = 0 THEN {EmptyItems}
    ELSE LET smaller == RecordsUpTo(n - 1)
         IN  smaller \cup
             {[r EXCEPT ![k] = v] :
                 <<r, k, v>> \in {<<r, k, v>> \in
                     smaller \X KeySet \X UNION {Values(k) : k \in KeySet} :
                         r[k] = Absent /\ v \in Values(k)}}

\* the records of src/test_model.py (lines 45-56, 86-97, 127-138)
HighRiskRecord ==
    [k \in KeySet |->
        CASE k = "age" -> Num(67000) [] k = "hypertension" -> Num(1000)
          [] k = "heart_disease" -> Num(1000) [] k = "ever_married" -> Num(1000)
          [] k = "work_type" -> Num(0) [] k = "Residence_type" -> Num(1000)
          [] k = "avg_glucose_level" -> Num(228690) [] k = "bmi" -> Num(36600)
          [] k = "gender" -> Str("male") [] k = "smoking_status" -> Str("smokes")]

LowRiskRecord ==
    [k \in KeySet |->
        CASE k = "age" -> Num(30000) [] k = "hypertension" -> Num(0)
          [] k = "heart_disease" -> Num(0) [] k = "ever_married" -> Num(1000)
          [] k = "work_type" -> Num(0) [] k = "Residence_type" -> Num(1000)
          [] k = "avg_glucose_level" -> Num(85000) [] k = "bmi" -> Num(22500)
          [] k = "gender" -> Str("female")
          [] k = "smoking_status" -> Str("never smoked")]

\* the record of the handler's docstring (lines 158-169)
DocRecord ==
    [k \in KeySet |->
        CASE k = "age" -> Num(45000) [] k = "hypertension" -> Bool(TRUE)
          [] k = "heart_disease" -> Bool(FALSE) [] k = "ever_married" -> Str("Yes")
          [] k = "work_type" -> Str("Private") [] k = "Residence_type" -> Str("Urban")
          [] k = "avg_glucose_level" -> Num(120500) [] k = "bmi" -> Num(28500)
          [] k = "gender" -> Str("Male")
          [] k = "smoking_status" -> Str("formerly smoked")]

Records == RecordsUpTo(MaxPresent) \cup {HighRiskRecord, LowRiskRecord, DocRecord}

-----------------------------------------------------------------------------
(* Output interpretation (lines 199-237) *)

PU == 10^4    \* probability units per 1.0

\* the last index holding the maximum
ArgMaxLast(row) ==
    (CHOOSE i \in 1..Len(row) :
        /\ \A j \in 1..Len(row) : row[j] <= row[i]
        /\ \A j \in (i + 1)..Len(row) : row[j] < row[i]) - 1

\* int(np.argmax(row)), 0-based: the first index holding the maximum
ArgMax(row) ==
    (CHOOSE i \in 1..Len(row) :
        /\ \A j \in 1..Len(row) : row[j] <= row[i]
        /\ \A j \in 1..(i - 1) : row[j] < row[i]) - 1

\* lines 208-214: class -> (risk_level, baseline probability)
risk_mapping ==
    [c \in 0..4 |->
        CASE c = 0 -> [risk_level |-> "very_low", probability |-> 1000]
          [] c = 1 -> [risk_level |-> "low", probability |-> 3000]
          [] c = 2 -> [risk_level |-> "moderate", probability |-> 5000]
          [] c = 3 -> [risk_level |-> "high", probability |-> 7000]
          [] c = 4 -> [risk_level |-> "very_high", probability |-> 9000]]

\* line 216: risk_mapping.get(predicted_class, ('moderate', 'Moderate risk', 0.5))
RiskEntry(c) ==
    IF c \in DOMAIN risk_mapping THEN risk_mapping[c]
    ELSE [risk_level |-> "moderate", probability |-> 5000]

\* the blend without its 0.3 anchor
BlendNoAnchor(baseline, confidence) == (baseline * confidence) \div PU

\* line 222: probability * confidence + (1 - confidence) * 0.3
Blend(baseline, confidence) ==
    (baseline * confidence + (PU - confidence) * 3000) \div PU

\* the upper threshold taken as open: exactly 0.7 is not high
RiskOfOpenHigh(probability) ==
    IF probability > 7000 THEN "high"
    ELSE IF probability >= 4000 THEN "moderate"
    ELSE "low"

\* lines 229-237
RiskOf(probability) ==
    IF probability >= 7000 THEN "high"
    ELSE IF probability >= 4000 THEN "moderate"
    ELSE "low"

\* the dispatch taking every width from 5 up
IsMultiClassAlsoSix(row) == Len(row) >= 5

\* line 200: prediction.shape[1] == 5
IsMultiClass(row) == Len(row) = 5

\* lines 200-237 on the row prediction[0]: the (probability, risk_level)
\* computed, or IndexError from prediction[0][0] on an empty row
Interpret(row) ==
    IF IsMultiClass(row)
    THEN LET predicted_class == ArgMax(row)
             entry == RiskEntry(predicted_class)
             confidence == row[predicted_class + 1]
         IN  Returned([probability |-> Blend(entry.probability, confidence),
                       risk_level |-> entry.risk_level])
    ELSE IF Len(row) = 0 THEN Raised("IndexError")
    ELSE LET probability == row[1]
         IN  Returned([probability |-> probability,
                       risk_level |-> RiskOf(probability)])

-----------------------------------------------------------------------------
(* Responses: the JSON object and the HTTP status a handler returns *)

NoResponse ==
    [status |-> 0, keys |-> {}, error |-> "", message |-> "", probability |-> 0,
     risk_level |-> "", features_used |-> {}, raw_output |-> <<>>]

\* jsonify({'error': ..., 'message': ...}), status
ErrorResponse(status, error, message) ==
    [NoResponse EXCEPT !.status = status, !.keys = {"error", "message"},
                       !.error = error, !.message = message]

\* lines 239-248
SuccessResponse(assessment, items, row) ==
    [NoResponse EXCEPT
        !.status = 200,
        !.keys = {"probability", "risk_level", "model", "features_used",
                  "prediction_details"},
        !.probability = assessment.probability,
        !.risk_level = assessment.risk_level,
        !.features_used = Keys(items),
        !.raw_output = row]

\* lines 173-176
NotLoadedResponse ==
    ErrorResponse(500, "Model not loaded", "stroke_model.h5 could not be loaded")

\* the rejection sent with the status of the except branch
InvalidRequestAsServerError ==
    ErrorResponse(500, "Invalid request",
                  "Request body must contain \"features\" object")

\* lines 181-184
InvalidRequestResponse ==
    ErrorResponse(400, "Invalid request",
                  "Request body must contain \"features\" object")

\* the error object without its message, as model_info builds it (line 260)
FailedResponseNoMessage(exc) ==
    [NoResponse EXCEPT !.status = 500, !.keys = {"error"},
                       !.error = "Prediction failed"]

\* lines 250-254: str(e) is represented by the exception's name
FailedResponse(exc) == ErrorResponse(500, "Prediction failed", exc)

\* lines 146-150; the value of model_loaded is carried in `message`
HealthResponse(m) ==
    [NoResponse EXCEPT !.status = 200,
                       !.keys = {"status", "model_loaded", "model_path"},
                       !.message = IF m.loaded THEN "model_loaded" ELSE "model_missing"]

\* lines 259-268
InfoResponse(m) ==
    IF ~m.loaded
    THEN [NoResponse EXCEPT !.status = 500, !.keys = {"error"},
                            !.error = "Model not loaded"]
    ELSE [NoResponse EXCEPT !.status = 200,
                            !.keys = {"model_path", "input_shape", "output_shape",
                                      "expected_features", "feature_count"}]

-----------------------------------------------------------------------------
(* Request bodies.  json is what the body is:                              *)
(*   "object"        a non-empty JSON object, has_features tells whether   *)
(*                   it holds the key "features" (then `features` is its   *)
(*                   value)                                                *)
(*   "empty_object"  {}                                                    *)
(*   "scalar"        a non-zero JSON number or true                        *)
(*   "malformed"     Content-Type application/json, body is no JSON        *)
(*   "none"          a GET request                                         *)

Body(route, json, has, feat) ==
    [route |-> route, json |-> json, has_features |-> has, features |-> feat]

NoBody == Body("none", "none", FALSE, NotADict)
HealthRequest == Body("health", "none", FALSE, NotADict)
InfoRequest == Body("info", "none", FALSE, NotADict)
PredictRequest(feat) == Body("predict", "object", TRUE, feat)
PredictOther(json) == Body("predict", json, FALSE, NotADict)

\* a record whose age is no number: float() raises on it
BadAgeRecord == [EmptyItems EXCEPT !["age"] = Str("abc")]

ServiceBodies ==
    {HealthRequest, InfoRequest,
     PredictRequest(Dict(EmptyItems)), PredictRequest(Dict(HighRiskRecord)),
     PredictRequest(Dict(BadAgeRecord)),
     PredictOther("object"), PredictOther("empty_object"),
     PredictOther("scalar"), PredictOther("malformed")}

\* lines 179-186: request.get_json(), the test of line 180 and data['features'].
\* get_json raises BadRequest on a malformed body; {} is falsy (`not data`);
\* `'features' not in data` raises TypeError on a number or a bool.
ParseOutcomes(b) ==
    CASE b.json = "malformed" -> {[tag |-> "raise", exc |-> "BadRequest"]}
      [] b.json = "empty_object" -> {[tag |-> "invalid", exc |-> ""]}
      [] b.json = "scalar" -> {[tag |-> "raise", exc |-> "TypeError"]}
      [] b.json = "object" ->
            IF b.has_features THEN {[tag |-> "ok", exc |-> ""]}
            ELSE {[tag |-> "invalid", exc |-> ""]}

-----------------------------------------------------------------------------
(* The model handle.  A loaded Keras model is a deterministic function of  *)
(* its input row with one output width; its weights are not part of the    *)
(* repository, so a handle carries the outcome of predict for each input   *)
(* row the service can submit.  predict raises ValueError on a row whose   *)
(* width is not the model's input width.                                   *)

NoModel == [loaded |-> FALSE, input_shape |-> 0, fn |-> <<>>]

Handle(width, fn) == [loaded |-> TRUE, input_shape |-> width, fn |-> fn]

DefaultVector == preprocess_features(Dict(EmptyItems)).row
HighRiskVector == preprocess_features(Dict(HighRiskRecord)).row

ServiceVectors == {DefaultVector, HighRiskVector}

\* the outcomes of predict on the default row and on the high-risk row
Outcomes(onDefault, onHighRisk) ==
    [v \in ServiceVectors |-> IF v = DefaultVector THEN onDefault ELSE onHighRisk]

\* what keras.models.load_model (line 23) can return: a binary model
\* (Scenario B's [[0.85]]), a 5-class model (Scenario C's row), a model
\* whose output has no column, a model whose predict fails on one input,
\* and a model trained on 10 features
Models ==
    {Handle(FeatureCount, Outcomes(Returned(<<4000>>), Returned(<<8500>>))),
     Handle(FeatureCount, Outcomes(Returned(<<6000, 1000, 1000, 1000, 1000>>),
                                   Returned(<<500, 1000, 1500, 6000, 1000>>))),
     Handle(FeatureCount, Outcomes(Returned(<<>>), Returned(<<>>))),
     Handle(FeatureCount, Outcomes(Returned(<<4000>>),
                                   Raised("ResourceExhaustedError"))),
     Handle(10, Outcomes(Returned(<<8500>>), Returned(<<8500>>)))}

\* line 195: model.predict(input_data, verbose=0)
ModelPredict(m, x) ==
    IF Len(x) # m.input_shape THEN Raised("ValueError") ELSE m.fn[x]

-----------------------------------------------------------------------------
(* Process start (lines 17-33, 270-285) *)

Init ==
    /\ model = NoModel
    /\ phase = "init"
    /\ pc = [t \in Threads |-> "idle"]
    /\ body = [t \in Threads |-> NoBody]
    /\ features = [t \in Threads |-> NotADict]
    /\ input_data = [t \in Threads |-> <<>>]
    /\ prediction = [t \in Threads |-> <<>>]
    /\ response = [t \in Threads |-> NoResponse]

locals == <<pc, body, features, input_data, prediction, response>>

\* load_model succeeds (lines 21-27), then app.run (line 282)
LoadModel ==
    /\ phase = "init"
    /\ \E m \in Models : model' = m
    /\ phase' = "serving"
    /\ UNCHANGED locals

\* load_model returns False (lines 28-33): the process exits (lines 284-285)
LoadModelFails ==
    /\ phase = "init"
    /\ phase' = "exited"
    /\ UNCHANGED <<model, locals>>

\* the module is imported and `app` served by a WSGI host: load_model is
\* never called and model keeps the None of line 17
ServeImported ==
    /\ phase = "init"
    /\ phase' = "serving"
    /\ UNCHANGED <<model, locals>>

-----------------------------------------------------------------------------
(* Request handling, one worker thread per request *)

\* the variable kept in one module-level global all threads share
SetLocalShared(f, t, v) == [x \in DOMAIN f |-> v]

\* a local variable of the call running in thread t
SetLocal(f, t, v) == [f EXCEPT ![t] = v]

\* return <response>: the handler of thread t ends
Return(t, r) ==
    /\ response' = SetLocal(response, t, r)
    /\ pc' = SetLocal(pc, t, "done")

Receive(t, b) ==
    /\ phase = "serving"
    /\ pc[t] = "idle"
    /\ pc' = SetLocal(pc, t, "start")
    /\ body' = SetLocal(body, t, b)
    /\ UNCHANGED <<model, phase, features, input_data, prediction, response>>

\* lines 143-150
Health(t) ==
    /\ pc[t] = "start" /\ body[t].route = "health"
    /\ Return(t, HealthResponse(model))
    /\ UNCHANGED <<model, phase, body, features, input_data, prediction>>

\* lines 256-268
ModelInfo(t) ==
    /\ pc[t] = "start" /\ body[t].route = "info"
    /\ Return(t, InfoResponse(model))
    /\ UNCHANGED <<model, phase, body, features, input_data, prediction>>

\* the guard left out
ModelIsNoneNever(m) == FALSE

\* line 172: if model is None
ModelIsNone(m) == ~m.loaded

\* lines 172-176
CheckModel(t) ==
    /\ pc[t] = "start" /\ body[t].route = "predict"
    /\ IF ModelIsNone(model)
       THEN Return(t, NotLoadedResponse)
       ELSE /\ pc' = SetLocal(pc, t, "parse")
            /\ UNCHANGED response
    /\ UNCHANGED <<model, phase, body, features, input_data, prediction>>

\* lines 179-186, and 250-254 when they raise
ParseBody(t) ==
    /\ pc[t] = "parse"
    /\ \E o \in ParseOutcomes(body[t]) :
          CASE o.tag = "raise" ->
                  /\ Return(t, FailedResponse(o.exc))
                  /\ UNCHANGED features
            [] o.tag = "invalid" ->
                  /\ Return(t, InvalidRequestResponse)
                  /\ UNCHANGED features
            [] o.tag = "ok" ->
                  /\ features' = SetLocal(features, t, body[t].features)
                  /\ pc' = SetLocal(pc, t, "encode")
                  /\ UNCHANGED response
    /\ UNCHANGED <<model, phase, body, input_data, prediction>>

\* line 189, and 250-254 when it raises
Encode(t) ==
    /\ pc[t] = "encode"
    /\ LET enc == preprocess_features(features[t])
       IN  IF enc.exc # "none"
           THEN /\ Return(t, FailedResponse(enc.exc))
                /\ UNCHANGED input_data
           ELSE /\ input_data' = SetLocal(input_data, t, enc.row)
                /\ pc' = SetLocal(pc, t, "score")
                /\ UNCHANGED response
    /\ UNCHANGED <<model, phase, body, features, prediction>>

\* line 195, and 250-254 when it raises
Score(t) ==
    /\ pc[t] = "score"
    /\ LET out == ModelPredict(model, input_data[t])
       IN  IF out.exc # "none"
           THEN /\ Return(t, FailedResponse(out.exc))
                /\ UNCHANGED prediction
           ELSE /\ prediction' = SetLocal(prediction, t, out.row)
                /\ pc' = SetLocal(pc, t, "interpret")
                /\ UNCHANGED response
    /\ UNCHANGED <<model, phase, body, features, input_data>>

\* lines 199-248, and 250-254 when prediction[0][0] raises
InterpretAndRespond(t) ==
    /\ pc[t] = "interpret"
    /\ LET res == Interpret(prediction[t])
       IN  IF res.exc # "none"
           THEN Return(t, FailedResponse(res.exc))
           ELSE Return(t, SuccessResponse(res.row, features[t].items,
                                          prediction[t]))
    /\ UNCHANGED <<model, phase, body, features, input_data, prediction>>

\* the response is sent and the call's locals are gone
Finish(t) ==
    /\ pc[t] = "done"
    /\ pc' = SetLocal(pc, t, "idle")
    /\ body' = SetLocal(body, t, NoBody)
    /\ features' = SetLocal(features, t, NotADict)
    /\ input_data' = SetLocal(input_data, t, <<>>)
    /\ prediction' = SetLocal(prediction, t, <<>>)
    /\ response' = SetLocal(response, t, NoResponse)
    /\ UNCHANGED <<model, phase>>

Next ==
    \/ LoadModel
    \/ LoadModelFails
    \/ ServeImported
    \/ \E t \in Threads : \E b \in ServiceBodies : Receive(t, b)
    \/ \E t \in Threads : Health(t)
    \/ \E t \in Threads : ModelInfo(t)
    \/ \E t \in Threads : CheckModel(t)
    \/ \E t \in Threads : ParseBody(t)
    \/ \E t \in Threads : Encode(t)
    \/ \E t \in Threads : Score(t)
    \/ \E t \in Threads : InterpretAndRespond(t)
    \/ \E t \in Threads : Finish(t)

Spec == Init /\ [][Next]_vars

-----------------------------------------------------------------------------
(* The handler run to its end without interleaving: every response a       *)
(* predict, health or model-info request with body b can get from a        *)
(* process whose model handle is m (lines 143-268).                        *)

AfterScore(m, feat, row) ==
    LET res == Interpret(row)
    IN  IF res.exc # "none" THEN FailedResponse(res.exc)
        ELSE SuccessResponse(res.row, feat.items, row)

AfterParse(m, feat) ==
    LET enc == preprocess_features(feat)
    IN  IF enc.exc # "none" THEN FailedResponse(enc.exc)
        ELSE LET out == ModelPredict(m, enc.row)
             IN  IF out.exc # "none" THEN FailedResponse(out.exc)
                 ELSE AfterScore(m, feat, out.row)

HandlerResponses(m, b) ==
    CASE b.route = "health" -> {HealthResponse(m)}
      [] b.route = "info" -> {InfoResponse(m)}
      [] b.route = "predict" ->
            IF ModelIsNone(m) THEN {NotLoadedResponse}
            ELSE {CASE o.tag = "raise" -> FailedResponse(o.exc)
                    [] o.tag = "invalid" -> InvalidRequestResponse
                    [] o.tag = "ok" -> AfterParse(m, b.features) :
                  o \in ParseOutcomes(b)}

-----------------------------------------------------------------------------
(* The encoder alone: thread 1 is about to run line 189 on a generated     *)
(* record (or on a `features` value that is no object).                    *)

BinaryModel == Handle(FeatureCount, [v \in ServiceVectors |-> Returned(<<8500>>)])

InitEncode ==
    /\ model = BinaryModel
    /\ phase = "serving"
    /\ \E feat \in {Dict(r) : r \in Records} \cup {NotADict} :
          /\ features = [t \in Threads |-> IF t = 1 THEN feat ELSE NotADict]
          /\ body = [t \in Threads |-> IF t = 1 THEN PredictRequest(feat) ELSE NoBody]
    /\ pc = [t \in Threads |-> IF t = 1 THEN "encode" ELSE "idle"]
    /\ input_data = [t \in Threads |-> <<>>]
    /\ prediction = [t \in Threads |-> <<>>]
    /\ response = [t \in Threads |-> NoResponse]

NextEncode == \E t \in Threads : Encode(t)

SpecEncode == InitEncode /\ [][NextEncode]_vars

-----------------------------------------------------------------------------
(* The interpreter alone: thread 1 is about to run line 199 on the output  *)
(* row of a model that answers the default record with that row.           *)

OutVals == {1000, 4000, 6990, 7000, 12000}

Rows ==
    UNION {[1..n -> OutVals] : n \in 0..MaxCard}
    \cup {<<8500>>, <<500, 1000, 1500, 6000, 1000>>}

InitInterpret ==
    /\ phase = "serving"
    /\ \E row \in Rows :
          /\ model = Handle(FeatureCount, [v \in ServiceVectors |-> Returned(row)])
          /\ prediction = [t \in Threads |-> IF t = 1 THEN row ELSE <<>>]
    /\ pc = [t \in Threads |-> IF t = 1 THEN "interpret" ELSE "idle"]
    /\ body = [t \in Threads |->
                 IF t = 1 THEN PredictRequest(Dict(EmptyItems)) ELSE NoBody]
    /\ features = [t \in Threads |-> IF t = 1 THEN Dict(EmptyItems) ELSE NotADict]
    /\ input_data = [t \in Threads |-> IF t = 1 THEN DefaultVector ELSE <<>>]
    /\ response = [t \in Threads |-> NoResponse]

NextInterpret == \E t \in Threads : InterpretAndRespond(t)

SpecInterpret == InitInterpret /\ [][NextInterpret]_vars

-----------------------------------------------------------------------------
(* Properties *)

\* thread t has run the encoder on a JSON object
Encoded(t) ==
    /\ body[t].route = "predict"
    /\ features[t].isdict
    /\ pc[t] \in {"score", "interpret", "done"}

\* the encoder returned a row to thread t
GotRow(t) == Encoded(t) /\ input_data[t] # <<>>

\* every numeric key present holds a number, a bool or a numeric string
Admissible(items) ==
    \A k \in {"age", "avg_glucose_level", "bmi"} :
        \/ items[k].t \in {"absent", "num", "bool"}
        \/ items[k].t = "str" /\ items[k].s \in {"67", "22.5", "0", "1"}

\* C1: for every feature record whose values are admissible the encoder
\* returns one row of exactly 22 values, and positions 10 through 21 of the
\* row (11..22 counting from 1) are 0 whatever the record holds.
C1_RowOf22ReservedZero ==
    \A t \in Threads :
        (Encoded(t) /\ Admissible(features[t].items)) =>
            /\ GotRow(t)
            /\ Len(input_data[t]) = 22
            /\ \A i \in 11..22 : input_data[t][i] = 0

C1_Witness ==
    \E t \in Threads :
        /\ GotRow(t)
        /\ features[t].items["smoking_status"] = Str("Smokes")
        /\ features[t].items["bmi"] = Num(36600)
        /\ input_data[t][10] = 2 * Q20

\* the documented defaults, by vector position
DocumentedDefault == <<50, 0, 0, 1, 0, 1, 100, 25, 0, 0>>

\* C2: encoding never fails on a missing key (only on a present value that
\* is no number), each absent key takes its documented default whatever
\* other keys are present, and the empty record encodes to
\* [50,0,0,1,0,1,100,25,0,0] followed by twelve zeros.
C2_AbsentKeysTakeDefaults ==
    \A t \in Threads :
        Encoded(t) =>
            /\ ~GotRow(t) =>
                  \E k \in KeySet : features[t].items[k] # Absent
            /\ GotRow(t) =>
                  \A i \in 1..10 :
                      features[t].items[FeatureKeys[i]] = Absent =>
                          input_data[t][i] = DocumentedDefault[i] * Q20
            /\ features[t].items = EmptyItems =>
                  input_data[t] =
                      [i \in 1..22 |->
                          IF i <= 10 THEN DocumentedDefault[i] * Q20 ELSE 0]

C2_Witness ==
    \E t \in Threads :
        /\ GotRow(t)
        /\ features[t].items["age"] = Num(67000)
        /\ features[t].items["gender"] = Str("male")
        /\ features[t].items["ever_married"] = Absent
        /\ input_data[t][1] = 67 * Q20
        /\ input_data[t][4] = Q20

\* the code each string of the generated records must get, per field
ExpectedCode(key, str) ==
    CASE key = "ever_married" -> IF str \in {"Yes", "YES", "married"} THEN 1 ELSE 0
      [] key = "Residence_type" -> IF str \in {"Urban", "URBAN"} THEN 1 ELSE 0
      [] key = "work_type" ->
            CASE str = "Private" -> 0 [] str = "self-employed" -> 1
              [] str = "Govt_job" -> 2 [] str = "children" -> 3
              [] str = "Never_worked" -> 4 [] OTHER -> 0
      [] key = "gender" ->
            CASE str \in {"male", "MALE", "Male"} -> 1
              [] str \in {"female", "Female"} -> 0
              [] str = "Other" -> 2 [] OTHER -> 0
      [] key = "smoking_status" ->
            CASE str \in {"never smoked", "never"} -> 0
              [] str \in {"Formerly Smoked", "formerly smoked", "formerly"} -> 1
              [] str \in {"Smokes", "smokes", "regularly smoked", "Current"} -> 2
              [] str = "Unknown" -> 3
              [] OTHER -> 3

\* the documented code range of a categorical field
CodeRange(key) ==
    CASE key \in {"ever_married", "Residence_type"} -> 0..1
      [] key = "work_type" -> 0..4
      [] key = "gender" -> 0..2
      [] key = "smoking_status" -> 0..3

\* C10: a categorical field given as a string is encoded case-insensitively
\* through its table, an unrecognised string goes to the field's fallback
\* (work_type 0, gender 0, smoking_status 3, ever_married 0, Residence_type
\* 0), so the code is always inside the field's range; an absent
\* smoking_status gives 0.
C10_StringCodes ==
    \A t \in Threads :
        GotRow(t) =>
            /\ \A i \in {4, 5, 6, 9, 10} :
                  LET v == features[t].items[FeatureKeys[i]]
                  IN  v.t = "str" =>
                        /\ input_data[t][i] = ExpectedCode(FeatureKeys[i], v.s) * Q20
                        /\ \E c \in CodeRange(FeatureKeys[i]) :
                              input_data[t][i] = c * Q20
            /\ features[t].items["smoking_status"] = Absent => input_data[t][10] = 0

C10_Witness ==
    \E t \in Threads :
        /\ GotRow(t)
        /\ features[t].items["gender"] = Str("MALE")
        /\ features[t].items["smoking_status"] = Str("Sometimes")
        /\ input_data[t][9] = Q20
        /\ input_data[t][10] = 3 * Q20

\* thread t has run the interpretation of lines 199-248 on prediction[t]
\* (under SpecInterpret a handler ends only there)
Interpreted(t) == body[t].route = "predict" /\ pc[t] = "done"

\* C5: on the single-scalar path the reported probability is output[0]
\* unchanged and the risk level is a function of it: >= 0.7 high,
\* 0.4 <= p < 0.7 moderate, < 0.4 low; exactly 0.7 is high, exactly 0.4 is
\* moderate.
C5_ScalarThresholds ==
    \A t \in Threads :
        (Interpreted(t) /\ Len(prediction[t]) \notin {0, 5}) =>
            LET p == response[t].probability
            IN  /\ response[t].status = 200
                /\ p = prediction[t][1]
                /\ p >= 7000 => response[t].risk_level = "high"
                /\ (4000 <= p /\ p < 7000) => response[t].risk_level = "moderate"
                /\ p < 4000 => response[t].risk_level = "low"

C5_Witness ==
    \E t \in Threads :
        /\ Interpreted(t)
        /\ prediction[t] = <<7000>>
        /\ response[t].probability = 7000
        /\ response[t].risk_level = "high"

\* the five-entry table of the multi-class path, by 1-based class position
ClassLevel == <<"very_low", "low", "moderate", "high", "very_high">>
ClassBaseline == <<1000, 3000, 5000, 7000, 9000>>

\* C6: on a 5-element output the risk level is the table entry at the
\* lowest index holding the maximum, the probability is
\* baseline(c) * output[c] + 0.3 * (1 - output[c]), and it lies in [0, 1]
\* whenever output[c] does.
C6_MultiClassBlend ==
    \A t \in Threads :
        (Interpreted(t) /\ Len(prediction[t]) = 5) =>
            \E c \in 1..5 :
                /\ \A j \in 1..5 : prediction[t][j] <= prediction[t][c]
                /\ \A j \in 1..(c - 1) : prediction[t][j] < prediction[t][c]
                /\ response[t].status = 200
                /\ response[t].risk_level = ClassLevel[c]
                /\ response[t].probability * 10000 =
                      ClassBaseline[c] * prediction[t][c]
                      + 3000 * (10000 - prediction[t][c])
                /\ (0 <= prediction[t][c] /\ prediction[t][c] <= 10000) =>
                      (0 <= response[t].probability
                       /\ response[t].probability <= 10000)

C6_Witness ==
    \E t \in Threads :
        /\ Interpreted(t)
        /\ prediction[t] = <<500, 1000, 1500, 6000, 1000>>
        /\ response[t].risk_level = "high"
        /\ response[t].probability = 5400

\* C9 as stated: every cardinality other than 5, the empty output included,
\* is answered from output[0] with a level among low, moderate, high.
C9_Original ==
    \A t \in Threads :
        (Interpreted(t) /\ Len(prediction[t]) # 5) =>
            /\ response[t].status = 200
            /\ response[t].risk_level \in {"low", "moderate", "high"}
            /\ Len(prediction[t]) > 0 =>
                  response[t].probability = prediction[t][1]

\* C9 amended: exactly 5 elements take the multi-class path; every other
\* non-empty output is answered from output[0] with a level among low,
\* moderate, high; an empty output takes the same branch, where
\* prediction[0][0] raises, and is answered 500 'Prediction failed' with no
\* probability; very_low and very_high come only from 5 elements.
C9_TwoWayDispatch ==
    \A t \in Threads :
        Interpreted(t) =>
            /\ Len(prediction[t]) \notin {0, 5} =>
                  /\ response[t].status = 200
                  /\ response[t].risk_level \in {"low", "moderate", "high"}
                  /\ response[t].probability = prediction[t][1]
            /\ Len(prediction[t]) = 0 =>
                  /\ response[t].status = 500
                  /\ response[t].error = "Prediction failed"
                  /\ "probability" \notin response[t].keys
            /\ Len(prediction[t]) = 5 =>
                  \E c \in 1..5 :
                      /\ response[t].risk_level = ClassLevel[c]
                      /\ response[t].probability * 10000 =
                            ClassBaseline[c] * prediction[t][c]
                            + 3000 * (10000 - prediction[t][c])
            /\ response[t].risk_level \in {"very_low", "very_high"} =>
                  Len(prediction[t]) = 5

C9_Witness ==
    \E t \in Threads :
        /\ Interpreted(t)
        /\ Len(prediction[t]) = 6
        /\ prediction[t][1] = 4000
        /\ prediction[t][6] = 12000
        /\ response[t].risk_level = "moderate"

\* thread t has finished handling a predict request
Answered(t) == body[t].route = "predict" /\ pc[t] = "done"

\* C3 as stated: a predict request whose JSON body has no top-level
\* "features" record is answered 400 and nothing is encoded or scored.
C3_Original ==
    \A t \in Threads :
        (/\ Answered(t)
         /\ body[t].json \in {"object", "empty_object", "scalar"}
         /\ ~body[t].has_features) =>
            /\ response[t].status = 400
            /\ input_data[t] = <<>>
            /\ prediction[t] = <<>>

\* C3 amended: when a model is loaded, a predict request whose body is a
\* JSON object without the key "features" (the empty object included) is
\* answered 400 'Invalid request', and nothing is encoded or scored for it.
C3_MissingFeaturesRejected ==
    \A t \in Threads :
        (/\ body[t].route = "predict"
         /\ model.loaded
         /\ body[t].json \in {"object", "empty_object"}
         /\ ~body[t].has_features) =>
            /\ pc[t] \in {"start", "parse", "done"}
            /\ features[t] = NotADict
            /\ input_data[t] = <<>>
            /\ prediction[t] = <<>>
            /\ pc[t] = "done" =>
                  /\ response[t].status = 400
                  /\ response[t].keys = {"error", "message"}
                  /\ response[t].error = "Invalid request"

C3_Witness ==
    \E t \in Threads :
        /\ Answered(t)
        /\ model.loaded
        /\ body[t].json = "empty_object"
        /\ response[t].status = 400

\* C4: while the model handle is None every predict request, whatever its
\* body, ends with 500 'Model not loaded' before the body is read, and the
\* response holds neither probability nor risk_level.
C4_NotLoaded ==
    \A t \in Threads :
        (/\ body[t].route = "predict"
         /\ ~model.loaded
         /\ pc[t] # "start") =>
            /\ pc[t] = "done"
            /\ response[t].status = 500
            /\ response[t].error = "Model not loaded"
            /\ response[t].keys \cap {"probability", "risk_level"} = {}
            /\ features[t] = NotADict
            /\ input_data[t] = <<>>
            /\ prediction[t] = <<>>

C4_Witness ==
    \E t \in Threads :
        /\ Answered(t)
        /\ ~model.loaded
        /\ body[t] = PredictRequest(Dict(HighRiskRecord))
        /\ response[t].status = 500

\* every step of the pipeline completes for thread t's request
AllStepsComplete(t) ==
    /\ model.loaded
    /\ features[t].isdict
    /\ Len(input_data[t]) = 22
    /\ prediction[t] # <<>>
    /\ response[t].raw_output = prediction[t]

\* C7: a predict request ends in exactly one structured response and never
\* in a partial one: no response exists before the handler ends; at its end
\* the response is either a success holding probability and risk_level,
\* given only when encoding, scoring and interpretation all completed, or
\* an error holding error and message and neither probability nor
\* risk_level; and a handler that has not ended can always take its next
\* step, so no failure leaves it without a response.
C7_WholeOrError ==
    \A t \in Threads :
        body[t].route = "predict" =>
            /\ pc[t] # "done" => response[t] = NoResponse
            /\ pc[t] \in {"start", "parse", "encode", "score", "interpret"} =>
                  ENABLED (\/ CheckModel(t) \/ ParseBody(t) \/ Encode(t)
                           \/ Score(t) \/ InterpretAndRespond(t))
            /\ pc[t] = "done" =>
                  \/ /\ response[t].status = 200
                     /\ {"probability", "risk_level"} \subseteq response[t].keys
                     /\ response[t].keys \cap {"error", "message"} = {}
                     /\ response[t].risk_level \in
                           {"very_low", "low", "moderate", "high", "very_high"}
                     /\ AllStepsComplete(t)
                  \/ /\ response[t].status \in {400, 500}
                     /\ response[t].keys = {"error", "message"}
                     /\ response[t].error # ""
                     /\ response[t].message # ""
                     /\ ~AllStepsComplete(t)

C7_Witness ==
    \E t \in Threads :
        /\ Answered(t)
        /\ response[t].status = 500
        /\ response[t].message = "ResourceExhaustedError"
        /\ Len(input_data[t]) = 22

\* the locals of thread t
LocalsOf(t) ==
    <<pc[t], body[t], features[t], input_data[t], prediction[t], response[t]>>

\* C8: request handling is stateless and reentrant: no step of a serving
\* process changes the model handle, a step of one request changes nothing
\* of another request, and under every interleaving a request ends with a
\* response it can get when handled alone with the same body and handle.
C8_Reentrant ==
    [][/\ phase = "serving" => model' = model
       /\ \A t, u \in Threads :
             (t # u /\ LocalsOf(t)' # LocalsOf(t)) => LocalsOf(u)' = LocalsOf(u)
       /\ \A t \in Threads :
             (pc[t] # "done" /\ pc'[t] = "done") =>
                 response'[t] \in HandlerResponses(model', body'[t])]_vars

C8_Witness ==
    \E t, u \in Threads :
        /\ t # u
        /\ pc[t] = "done" /\ response[t].status = 200
        /\ body[t] = PredictRequest(Dict(HighRiskRecord))
        /\ pc[u] = "score" /\ body[u] = PredictRequest(Dict(EmptyItems))

=============================================================================
